---- MODULE Spec2Model ----
(***************************************************************************)
(* CHIP-8 interpreter (akowald/CHIP-8): the execution engine of chip8.cpp  *)
(* and the frame-paced scheduler of Chip8::Run.                            *)
(*                                                                         *)
(* Storage model.  chip8.h declares the 4096-byte memory[] and the         *)
(* register file as the two members of one anonymous union, so every       *)
(* register IS a range of bytes of memory[].  The model keeps one byte     *)
(* array, memory, and reads every register through its offset in the      *)
(* union (x86-64 ABI, little-endian, the layout the struct of chip8.h      *)
(* lines 65-86 gets).  The byte array is kept as the function from the     *)
(* addresses that hold a non-zero byte to that byte: Rd8 reads an address  *)
(* (0 where the function is undefined), Wr8 writes one.                    *)
(***************************************************************************)
EXTENDS Integers, Naturals, Sequences, FiniteSets, TLC

(* ---------------- constants of chip8.h ---------------- *)
W == 64
H == 32
MAX_MEMORY == 4096
PROGRAM_SPACE == 512
MAX_PROGRAM_SIZE == MAX_MEMORY - PROGRAM_SPACE
STACK_SIZE == 16
MAX_REGISTERS == 16
WAITINGKEY_FLAG == 16
FPS == 60

(* ---------------- byte offsets of the union members ---------------- *)
OffV == 0
OffI == 16
OffPC == 18
OffStack == 20
OffSP == 52
OffWaitingKey == 53
OffDelayTimer == 54
OffSoundTimer == 55
OffFont == 56
OffDisplay == 136
OffKeys == 392

(* ---------------- fixed-width arithmetic ---------------- *)
Pow2(n) == 2 ^ n
U8(v) == v % 256
U16(v) == v % 65536
Bit(v, k) == (v \div Pow2(k)) % 2
Min(a, b) == IF a < b THEN a ELSE b
Max(a, b) == IF a > b THEN a ELSE b

RECURSIVE BitAnd(_, _, _)
BitAnd(a, b, n) ==
    IF n = 0 THEN 0
    ELSE (a % 2) * (b % 2) + 2 * BitAnd(a \div 2, b \div 2, n - 1)

RECURSIVE BitOr(_, _, _)
BitOr(a, b, n) ==
    IF n = 0 THEN 0
    ELSE Max(a % 2, b % 2) + 2 * BitOr(a \div 2, b \div 2, n - 1)

RECURSIVE BitXor(_, _, _)
BitXor(a, b, n) ==
    IF n = 0 THEN 0
    ELSE ((a + b) % 2) + 2 * BitXor(a \div 2, b \div 2, n - 1)

(* ---------------- register views of the byte array ---------------- *)
Rd8(m, a) == IF a \in DOMAIN m THEN m[a] ELSE 0
Wr8(m, a, v) ==
    IF v = 0 THEN [b \in { d : d \in DOMAIN m \ {a} } |-> m[b]]
    ELSE [b \in { d : d \in DOMAIN m \cup {a} } |-> IF b = a THEN v ELSE m[b]]
Rd16(m, a) == Rd8(m, a) + 256 * Rd8(m, a + 1)
Wr16(m, a, v) == Wr8(Wr8(m, a, v % 256), a + 1, (v \div 256) % 256)
(* the bytes of m outside the range [lo, hi), the range zeroed *)
ZeroRange(m, lo, hi) == [b \in { a \in DOMAIN m : a < lo \/ a >= hi } |-> m[b]]

RegV(m, x) == Rd8(m, OffV + x)
RegI(m) == Rd16(m, OffI)
RegPC(m) == Rd16(m, OffPC)
RegSP(m) == Rd8(m, OffSP)
RegStack(m, k) == Rd16(m, OffStack + 2 * k)
RegWaitingKey(m) == Rd8(m, OffWaitingKey)
RegDelayTimer(m) == Rd8(m, OffDelayTimer)
RegSoundTimer(m) == Rd8(m, OffSoundTimer)
RegKeys(m) == Rd16(m, OffKeys)
DisplayBit(m, cell) == Bit(Rd8(m, OffDisplay + (cell \div 8)), cell % 8)

(* font table of Chip8::Chip8 *)
fonts ==
    << 240, 144, 144, 144, 240,   32,  96,  32,  32, 112,
       240,  16, 240, 128, 240,  240,  16, 240,  16, 240,
       144, 144, 240,  16,  16,  240, 128, 240,  16, 240,
       240, 128, 240, 144, 240,  240,  16,  32,  64,  64,
       240, 144, 240, 144, 240,  240, 144, 240,  16, 240,
       240, 144, 240, 144, 144,  224, 144, 224, 144, 224,
       240, 128, 128, 128, 240,  224, 144, 144, 144, 224,
       240, 128, 240, 128, 240,  240, 128, 240, 128, 128 >>

(* ---------------- state ----------------
   memory, halt, screenUpdated      members of Chip8 (chip8.h 60-104)
   ips                              Chip8::ips, set by SetIPS before Run
   phase                            where main / Chip8::Run stands
   running, insPerFrame, consecutiveIns, framesFinished, i
                                    the locals of Chip8::Run
   polled                           events SDL_PollEvent returned in this cycle
   now                              the last clock sample, in ticks
   filePath                         the program file named on the command line
   sampleTimes                      the instants at which the host lets the loop
                                    sample the clock
   memAccess, stackWrite            history: the memory[] indices the last
                                    ExecuteInstruction call used, and the stack[]
                                    indices it stored to
   lastEvent                        history: the event the last step handled
   lastFetch                        history: the PC the last call fetched at, -1
                                    when it fetched nothing
   dtVal, dtAt                      history: the value an instruction last left in
                                    delayTimer, and framesFinished at that moment
   executed                         history: the instructions fetched and executed
                                    in the current batch
   shownBefore                      history: the bytes of the display as they were
                                    before the last executed instruction
   calls                            history: the CALLs that have not returned, one
                                    per depth: the address of the CALL, SP before
                                    it and stack[0..SP] before it
   reloadPath                       the file the host passes to a second
                                    LoadProgram call once Run has returned, NoFile
                                    when it makes none (main makes none) *)
VARIABLES memory, halt, screenUpdated, ips, phase, running, insPerFrame,
          consecutiveIns, framesFinished, i, polled, now, filePath, sampleTimes,
          memAccess, stackWrite, lastFetch, dtVal, dtAt, lastEvent, executed,
          shownBefore, calls, reloadPath

vars == << memory, halt, screenUpdated, ips, phase, running, insPerFrame,
           consecutiveIns, framesFinished, i, polled, now, filePath, sampleTimes,
           memAccess, stackWrite, lastFetch, dtVal, dtAt, lastEvent, executed,
           shownBefore, calls, reloadPath >>

machine == << memory, halt, screenUpdated >>
host == << ips, filePath, sampleTimes >>
runLocals == << running, insPerFrame, consecutiveIns, framesFinished, i, polled, now >>
history == << memAccess, stackWrite, lastFetch, dtVal, dtAt, executed, shownBefore, calls >>

NoEvent == [type |-> "none", scancode |-> "none"]

(* the bytes of the display bitset that are not zero *)
Shown(m) == [a \in { b \in DOMAIN m : b >= OffDisplay /\ b < OffDisplay + ((W * H) \div 8) } |-> m[a]]

(* Chip8::ClearScreen on the byte array: display.reset() *)
ClearScreen(m) == ZeroRange(m, OffDisplay, OffDisplay + ((W * H) \div 8))

(* Chip8::Reset on the byte array *)
Reset(m) ==
    LET m1 == Wr8(m, OffSP, 0)
        m2 == Wr16(m1, OffPC, PROGRAM_SPACE)
        m3 == ZeroRange(m2, OffV, OffV + MAX_REGISTERS)
        m4 == Wr16(m3, OffI, 0)
        m5 == Wr8(Wr8(m4, OffDelayTimer, 0), OffSoundTimer, 0)
        m6 == Wr16(m5, OffKeys, 0)
        m7 == Wr8(m6, OffWaitingKey, 0)
    IN ClearScreen(m7)

(* the object Chip8::Chip8 leaves: memory[] zero-initialised, memcpy(&font, &fonts),
   Reset() *)
Constructed ==
    Reset([a \in { b \in OffFont .. (OffFont + Len(fonts) - 1) : fonts[b - OffFont + 1] # 0 } |->
              fonts[a - OffFont + 1]])


(* ---------------- the engine's working state ----------------
   A context c is the object state one ExecuteInstruction call works on:
     mem  the union's bytes            halt, upd  the halt and screenUpdated members
     acc  the memory[] indices the call has used so far (history, for the claims)
     stk  the stack[] indices the call has stored to      (history, for the claims)
     fetch  the PC the call fetched its instruction at, -1 before the fetch
     oob  TRUE once the call has stored outside memory[0..4095]
   nd holds the values the environment decides for this call:
     rnd   the byte the random generator returns (Cxkk)
     junk  the byte a read past the end of memory[] returns
     ub    the outcome of an operation the language leaves undefined *)
Ctx(m, h, u) ==
    [mem |-> m, halt |-> h, upd |-> u, acc |-> {}, stk |-> {}, fetch |-> -1, oob |-> FALSE]

(* Chip8::Halt (debug off: no register dump) *)
Halt(c) == [c EXCEPT !.halt = TRUE]

(* SANITY_CHECK: Halt() when the condition fails; the caller then carries on *)
SANITY_CHECK(c, condition) == IF condition THEN c ELSE Halt(c)

(* memory[a] as an rvalue and as an lvalue *)
Load(c, a, junk) == IF a < MAX_MEMORY THEN Rd8(c.mem, a) ELSE junk
Touch(c, a) == [c EXCEPT !.acc = @ \cup {a}]
Store(c, a, v) ==
    IF a < MAX_MEMORY
    THEN [c EXCEPT !.mem = Wr8(@, a, U8(v)), !.acc = @ \cup {a}]
    ELSE [c EXCEPT !.acc = @ \cup {a}, !.oob = TRUE]

SetV(c, x, v) == [c EXCEPT !.mem = Wr8(@, OffV + x, U8(v))]
SetI(c, v) == [c EXCEPT !.mem = Wr16(@, OffI, U16(v))]
SetPC(c, v) == [c EXCEPT !.mem = Wr16(@, OffPC, U16(v))]
SetSP(c, v) == [c EXCEPT !.mem = Wr8(@, OffSP, U8(v))]
SkipNext(c) == SetPC(c, RegPC(c.mem) + 2)

(* display[cell] = pixel on the bytes of the bitset *)
SetDisplayBit(c, cell, pixel) ==
    LET a == OffDisplay + (cell \div 8)
        b == cell % 8
        old == Rd8(c.mem, a)
    IN [c EXCEPT !.mem = Wr8(@, a, old - Bit(old, b) * Pow2(b) + pixel * Pow2(b))]

(* faulty variant of OpRET: the SP > 0 check left out *)
OpRETUnchecked(c, ub) ==
    LET sp == RegSP(c.mem)
        c2 == SetSP(c, sp + 255)
        ret == IF ub THEN RegStack(c2.mem, sp) ELSE RegStack(c.mem, sp)
    IN SetPC(c2, ret)

(* 00EE: SANITY_CHECK(SP > 0); PC = stack[SP--];
   With SP = 16 the slot read is the two bytes that hold SP and waitingKey: the
   language leaves the order of that read and the store of the decremented SP
   open, ub chooses (TRUE: the read comes last). *)
OpRET(c, ub) ==
    LET c1 == SANITY_CHECK(c, RegSP(c.mem) > 0)
        sp == RegSP(c1.mem)
        c2 == SetSP(c1, sp + 255)
        ret == IF ub THEN RegStack(c2.mem, sp) ELSE RegStack(c1.mem, sp)
    IN SetPC(c2, ret)

(* faulty variant of OpCALL: the overflow check against STACK_SIZE instead of STACK_SIZE-1 *)
OpCALLSixteen(c, nnn, ub) ==
    LET c1 == SANITY_CHECK(c, RegSP(c.mem) < STACK_SIZE)
        pc == RegPC(c1.mem)
        sp == U8(RegSP(c1.mem) + 1)
        c2 == SetSP(c1, sp)
        c3 == [c2 EXCEPT !.mem = Wr16(@, OffStack + 2 * sp, pc), !.stk = @ \cup {sp}]
        c4 == IF ub /\ OffStack + 2 * sp <= OffSP /\ OffSP <= OffStack + 2 * sp + 1
              THEN SetSP(c3, sp) ELSE c3
    IN SetPC(c4, nnn)

(* 2nnn: SANITY_CHECK(SP < STACK_SIZE-1); stack[++SP] = PC; PC = nnn;
   With SP = 15 the store goes to stack[16], the two bytes that hold SP and
   waitingKey: the language leaves the order of that store and the store of the
   incremented SP open, ub chooses (TRUE: the SP store lands last). *)
OpCALL(c, nnn, ub) ==
    LET c1 == SANITY_CHECK(c, RegSP(c.mem) < STACK_SIZE - 1)
        pc == RegPC(c1.mem)
        sp == U8(RegSP(c1.mem) + 1)
        c2 == SetSP(c1, sp)
        c3 == [c2 EXCEPT !.mem = Wr16(@, OffStack + 2 * sp, pc), !.stk = @ \cup {sp}]
        c4 == IF ub /\ OffStack + 2 * sp <= OffSP /\ OffSP <= OffStack + 2 * sp + 1
              THEN SetSP(c3, sp) ELSE c3
    IN SetPC(c4, nnn)

(* 8xy4 *)
OpADD(c, x, y) ==
    LET sum == RegV(c.mem, x) + RegV(c.mem, y)
        c1 == SetV(c, 15, sum \div 256)
    IN SetV(c1, x, sum % 256)

(* 8xy5: uint16_t sub = V[x] - V[y]; V[0xF] = !(sub >> 8); V[x] = sub & 0xFF; *)
OpSUB(c, x, y) ==
    LET sub == U16(RegV(c.mem, x) - RegV(c.mem, y) + 65536)
        c1 == SetV(c, 15, IF sub \div 256 = 0 THEN 1 ELSE 0)
    IN SetV(c1, x, sub % 256)

(* 8xy7 *)
OpSUBN(c, x, y) ==
    LET sub == U16(RegV(c.mem, y) - RegV(c.mem, x) + 65536)
        c1 == SetV(c, 15, IF sub \div 256 = 0 THEN 1 ELSE 0)
    IN SetV(c1, x, sub % 256)

(* 8xy6: V[0xF] = V[y] & 0x1; V[x] = V[y] >> 1; *)
OpSHR(c, x, y) ==
    LET c1 == SetV(c, 15, RegV(c.mem, y) % 2)
    IN SetV(c1, x, RegV(c1.mem, y) \div 2)

(* 8xyE: V[0xF] = V[y] >> 7; V[x] = V[y] << 1; *)
OpSHL(c, x, y) ==
    LET c1 == SetV(c, 15, RegV(c.mem, y) \div 128)
    IN SetV(c1, x, RegV(c1.mem, y) * 2)

(* faulty variant of DrawBits: the sprite bit is ORed into the cell *)
RECURSIVE DrawBitsOr(_, _, _, _, _)
DrawBitsOr(c, height, bit, pixelX, pixelY) ==
    IF bit >= 8 THEN c
    ELSE LET rowStart == W * ((pixelY + height) % H)
             cell == rowStart + ((pixelX + bit) % W)
             addr == (RegI(c.mem) + height) % 4096
             old == DisplayBit(c.mem, cell)
             pixel == Max(old, Bit(Rd8(c.mem, addr), 7 - bit))
             c1 == Touch(c, addr)
             c2 == IF pixel = 0 /\ old = 1 THEN SetV(c1, 15, 1) ELSE c1
             done == SetDisplayBit(c2, cell, pixel)
         IN IF DOMAIN done.mem \subseteq 0 .. (MAX_MEMORY - 1)
            THEN DrawBitsOr(done, height, bit + 1, pixelX, pixelY)
            ELSE done

(* Dxyn, the inner loop from column bit on, for sprite row height; the test
   on done evaluates this iteration before the next one starts *)
RECURSIVE DrawBits(_, _, _, _, _)
DrawBits(c, height, bit, pixelX, pixelY) ==
    IF bit >= 8 THEN c
    ELSE LET rowStart == W * ((pixelY + height) % H)
             cell == rowStart + ((pixelX + bit) % W)
             addr == (RegI(c.mem) + height) % 4096
             old == DisplayBit(c.mem, cell)
             pixel == (old + Bit(Rd8(c.mem, addr), 7 - bit)) % 2
             c1 == Touch(c, addr)
             c2 == IF pixel = 0 /\ old = 1 THEN SetV(c1, 15, 1) ELSE c1
             done == SetDisplayBit(c2, cell, pixel)
         IN IF DOMAIN done.mem \subseteq 0 .. (MAX_MEMORY - 1)
            THEN DrawBits(done, height, bit + 1, pixelX, pixelY)
            ELSE done

(* Dxyn, the outer loop from sprite row height on *)
RECURSIVE DrawFrom(_, _, _, _, _)
DrawFrom(c, height, z, pixelX, pixelY) ==
    IF height >= z THEN c
    ELSE LET done == DrawBits(c, height, 0, pixelX, pixelY)
         IN IF DOMAIN done.mem \subseteq 0 .. (MAX_MEMORY - 1)
            THEN DrawFrom(done, height + 1, z, pixelX, pixelY)
            ELSE done

(* faulty variant of OpDRW: the SANITY_CHECK on I + z left out *)
OpDRWUnchecked(c, x, y, z) ==
    LET c2 == SetV(c, 15, 0)
        c3 == DrawFrom(c2, 0, z, RegV(c2.mem, x), RegV(c2.mem, y))
    IN [c3 EXCEPT !.upd = TRUE]

(* Dxyn *)
OpDRW(c, x, y, z) ==
    LET c1 == SANITY_CHECK(c, RegI(c.mem) + z < MAX_MEMORY)
        c2 == SetV(c1, 15, 0)
        c3 == DrawFrom(c2, 0, z, RegV(c2.mem, x), RegV(c2.mem, y))
    IN [c3 EXCEPT !.upd = TRUE]

(* keys & (1 << V[x]): an int shift; a count of 31 or more is undefined and ub
   is the outcome *)
KeyTest(c, x, ub) ==
    LET v == RegV(c.mem, x)
    IN IF v < 16 THEN Bit(RegKeys(c.mem), v) = 1
       ELSE IF v < 31 THEN FALSE
       ELSE ub

(* Fx33 *)
OpBCD(c, x) ==
    LET c0 == SANITY_CHECK(c, RegI(c.mem) + 2 < MAX_MEMORY)
        c1 == Store(c0, RegI(c0.mem), (RegV(c0.mem, x) \div 100) % 10)
        c2 == Store(c1, RegI(c1.mem) + 1, (RegV(c1.mem, x) \div 10) % 10)
    IN Store(c2, RegI(c2.mem) + 2, RegV(c2.mem, x) % 10)

(* Fx55 loop, k the loop variable: memory[I+k] = V[k] *)
RECURSIVE StoreRegs(_, _, _)
StoreRegs(c, k, x) ==
    IF k > x THEN c
    ELSE StoreRegs(Store(c, RegI(c.mem) + k, RegV(c.mem, k)), k + 1, x)

OpSTORE(c, x) ==
    LET c1 == StoreRegs(SANITY_CHECK(c, RegI(c.mem) + x < MAX_MEMORY), 0, x)
    IN SetI(c1, RegI(c1.mem) + x + 1)

(* Fx65 loop, k the loop variable: V[k] = memory[I+k] *)
RECURSIVE LoadRegs(_, _, _, _)
LoadRegs(c, k, x, junk) ==
    IF k > x THEN c
    ELSE LET a == RegI(c.mem) + k
         IN LoadRegs(SetV(Touch(c, a), k, Load(c, a, junk)), k + 1, x, junk)

OpLOAD(c, x, junk) ==
    LET c1 == LoadRegs(SANITY_CHECK(c, RegI(c.mem) + x < MAX_MEMORY), 0, x, junk)
    IN SetI(c1, RegI(c1.mem) + x + 1)

(* faulty variant of OpUnhandled: the word is skipped like 0nnn *)
OpUnhandledSkipped(c) == c

(* the final else: SANITY_CHECK(false, "Unhandled opcode") *)
OpUnhandled(c) == SANITY_CHECK(c, FALSE)

(* the if / else-if chain of ExecuteInstruction after PC += 2 *)
Dispatch(c, opCode, nd) ==
    LET w == (opCode \div 4096) % 16
        x == (opCode \div 256) % 16
        y == (opCode \div 16) % 16
        z == opCode % 16
        kk == opCode % 256
        nnn == opCode % 4096
        m == c.mem
    IN IF opCode = 224 THEN [c EXCEPT !.mem = ClearScreen(@), !.upd = TRUE]
       ELSE IF opCode = 238 THEN OpRET(c, nd.ub)
       ELSE IF w = 1 THEN SetPC(c, nnn)
       ELSE IF w = 2 THEN OpCALL(c, nnn, nd.ub)
       ELSE IF w = 3 THEN (IF RegV(m, x) = kk THEN SkipNext(c) ELSE c)
       ELSE IF w = 4 THEN (IF RegV(m, x) # kk THEN SkipNext(c) ELSE c)
       ELSE IF w = 5 /\ z = 0 THEN (IF RegV(m, x) = RegV(m, y) THEN SkipNext(c) ELSE c)
       ELSE IF w = 6 THEN SetV(c, x, kk)
       ELSE IF w = 7 THEN SetV(c, x, RegV(m, x) + kk)
       ELSE IF w = 8 /\ z = 0 THEN SetV(c, x, RegV(m, y))
       ELSE IF w = 8 /\ z = 1 THEN SetV(c, x, BitOr(RegV(m, x), RegV(m, y), 8))
       ELSE IF w = 8 /\ z = 2 THEN SetV(c, x, BitAnd(RegV(m, x), RegV(m, y), 8))
       ELSE IF w = 8 /\ z = 3 THEN SetV(c, x, BitXor(RegV(m, x), RegV(m, y), 8))
       ELSE IF w = 8 /\ z = 4 THEN OpADD(c, x, y)
       ELSE IF w = 8 /\ z = 5 THEN OpSUB(c, x, y)
       ELSE IF w = 8 /\ z = 6 THEN OpSHR(c, x, y)
       ELSE IF w = 8 /\ z = 7 THEN OpSUBN(c, x, y)
       ELSE IF w = 8 /\ z = 14 THEN OpSHL(c, x, y)
       ELSE IF w = 9 /\ z = 0 THEN (IF RegV(m, x) # RegV(m, y) THEN SkipNext(c) ELSE c)
       ELSE IF w = 10 THEN SetI(c, nnn)
       ELSE IF w = 11 THEN SetPC(c, nnn + RegV(m, 0))
       ELSE IF w = 12 THEN SetV(c, x, BitAnd(nd.rnd, kk, 8))
       ELSE IF w = 13 THEN OpDRW(c, x, y, z)
       ELSE IF w = 14 /\ kk = 158 THEN (IF KeyTest(c, x, nd.ub) THEN SkipNext(c) ELSE c)
       ELSE IF w = 14 /\ kk = 161 THEN (IF ~KeyTest(c, x, nd.ub) THEN SkipNext(c) ELSE c)
       ELSE IF w = 15 /\ kk = 7 THEN SetV(c, x, RegDelayTimer(m))
       ELSE IF w = 15 /\ kk = 10 THEN [c EXCEPT !.mem = Wr8(@, OffWaitingKey, WAITINGKEY_FLAG + x)]
       ELSE IF w = 15 /\ kk = 21 THEN [c EXCEPT !.mem = Wr8(@, OffDelayTimer, RegV(m, x))]
       ELSE IF w = 15 /\ kk = 24 THEN [c EXCEPT !.mem = Wr8(@, OffSoundTimer, RegV(m, x))]
       ELSE IF w = 15 /\ kk = 30 THEN SetI(c, RegI(m) + RegV(m, x))
       ELSE IF w = 15 /\ kk = 41 THEN SetI(c, OffFont + (RegV(m, x) % 16) * 5)
       ELSE IF w = 15 /\ kk = 51 THEN OpBCD(c, x)
       ELSE IF w = 15 /\ kk = 85 THEN OpSTORE(c, x)
       ELSE IF w = 15 /\ kk = 101 THEN OpLOAD(c, x, nd.junk)
       ELSE IF w = 0 THEN c
       ELSE OpUnhandled(c)

(* faulty variant of ValidPC: the lower bound left out *)
ValidPCNoLowerBound(pc) == pc < MAX_MEMORY

(* the PC test at the head of ExecuteInstruction *)
ValidPC(pc) == pc >= PROGRAM_SPACE /\ pc < MAX_MEMORY

(* opCode = (memory[PC] << 8) | memory[PC+1] *)
FetchWord(c, junk) ==
    LET pc == RegPC(c.mem) IN Load(c, pc, junk) * 256 + Load(c, pc + 1, junk)

(* faulty variant of ExecuteInstruction: the if(halt) return left out *)
ExecuteInstructionWhenHalted(c, nd) ==
    IF ~ValidPC(RegPC(c.mem)) THEN SANITY_CHECK(c, FALSE)
    ELSE LET pc == RegPC(c.mem)
             opCode == FetchWord(c, nd.junk)
             c1 == [Touch(Touch(c, pc), pc + 1) EXCEPT !.fetch = pc]
         IN Dispatch(SetPC(c1, pc + 2), opCode, nd)

(* Chip8::ExecuteInstruction (debug off) *)
ExecuteInstruction(c, nd) ==
    IF c.halt THEN c
    ELSE IF ~ValidPC(RegPC(c.mem)) THEN SANITY_CHECK(c, FALSE)
    ELSE LET pc == RegPC(c.mem)
             opCode == FetchWord(c, nd.junk)
             c1 == [Touch(Touch(c, pc), pc + 1) EXCEPT !.fetch = pc]
         IN Dispatch(SetPC(c1, pc + 2), opCode, nd)


(* ---------------- inputs ---------------- *)
(* model bounds *)
MaxEvents == 2
MaxNow == 4
TicksPerSecond == 120

(* the instants at which the loop may sample the clock: the first MaxNow ticks;
   with a stall, also the same window one second later (the loop was not
   scheduled in between) *)
EarlyTimes == 0 .. MaxNow
StallTimes == EarlyTimes \cup { TicksPerSecond + t : t \in {0, MaxNow} }

(* a program file image: big-endian instruction words as bytes *)
Bytes(words) ==
    [k \in 1 .. (2 * Len(words)) |->
        IF k % 2 = 1 THEN words[(k + 1) \div 2] \div 256 ELSE words[k \div 2] % 256]

(* seventeen CALLs, each to the next address, then a jump to itself *)
NestedCalls ==
    [k \in 1 .. 18 |-> IF k <= 17 THEN \h2000 + PROGRAM_SPACE + 2 * k
                       ELSE \h1000 + PROGRAM_SPACE + 2 * 17]

Programs ==
    [ ret      |-> << \h00EE >>,
      retret   |-> << \h2204, \h00EE, \h00EE >>,
      calls    |-> NestedCalls,
      callret  |-> << \h2206, \h2206, \h1204, \h00EE >>,
      jumpend  |-> << \h1FFF >>,
      jumplow  |-> << \h1100 >>,
      bhigh    |-> << \h60FF, \hBFFF >>,
      blow     |-> << \h6010, \hB0F0 >>,
      bcd      |-> << \hAFFE, \h609D, \hF033, \h1206 >>,
      key      |-> << \hF30A, \h7301, \hE39E, \h1200, \h1208 >>,
      timer    |-> << \h603C, \hF015, \hF018, \h1206 >>,
      alias    |-> << \hA034, \h6010, \hF055, \h00EE >> ]

(* what stat() and ifstream see of the file named on the command line *)
File(found, size, readable, bytes) ==
    [found |-> found, size |-> size, readable |-> readable, bytes |-> bytes]

ProgramFile(n) == File(TRUE, 2 * Len(Programs[n]), TRUE, Bytes(Programs[n]))

(* a program that fills program space to its last byte: a jump to itself, zeros,
   and a last byte that is not zero *)
FullProgram ==
    File(TRUE, MAX_PROGRAM_SIZE, TRUE,
         [k \in 1 .. MAX_PROGRAM_SIZE |->
             IF k = 1 THEN \h12 ELSE IF k = MAX_PROGRAM_SIZE THEN \hEE ELSE 0])

Files ==
    { ProgramFile(n) : n \in DOMAIN Programs }
    \cup { FullProgram,
           File(TRUE, 1, TRUE, << \h12 >>),
           File(FALSE, 0, FALSE, << >>),
           File(TRUE, 0, TRUE, << >>),
           File(TRUE, 2, FALSE, << 0, 224 >>),
           File(TRUE, MAX_PROGRAM_SIZE + 1, TRUE, [k \in 1 .. (MAX_PROGRAM_SIZE + 1) |-> 0]) }

(* ---- generated programs for the instruction-level properties ---- *)
(* registers and byte values the generated programs use *)
RegChoices == {0, 7, 15}
ByteChoices == {0, 1, 127, 128, 255}

(* 6xaa 6ybb 8xyz and a jump to itself: z one of ADD, SUB, SHR, SUBN, SHL *)
AluPrograms ==
    { << \h6000 + 256 * x + a, \h6000 + 256 * y + b,
         \h8000 + 256 * x + 16 * y + z, \h1206 >> :
        x \in RegChoices, y \in RegChoices, a \in ByteChoices, b \in ByteChoices,
        z \in {4, 5, 6, 7, 14} }

(* where the sprite of a generated draw lies: V[E] and V[F], the font, the first
   bytes of the display, the last two bytes of memory *)
SpriteAt == {14, OffFont, OffDisplay, MAX_MEMORY - 2}
DrawX == {0, 60, 63}
DrawY == {0, 31, 33}
Heights == {0, 1, 5, 15}

(* 6xaa 6ybb Annn and the same Dxyn twice, then a jump to itself *)
DrawPrograms ==
    { << \h6000 + 256 * x + a, \h6000 + 256 * y + b, \hA000 + nnn,
         \hD000 + 256 * x + 16 * y + n, \hD000 + 256 * x + 16 * y + n, \h120A >> :
        x \in RegChoices, y \in RegChoices, a \in DrawX, b \in DrawY,
        nnn \in SpriteAt, n \in Heights }

(* Annn 6xkk and one instruction that uses I, with I in the display, in the
   registers and in program space; I beyond 0xFFF by Fx1E before a draw; a draw
   followed by 00E0 and by instructions of the other groups *)
OtherPrograms ==
    { << \hA000 + nnn, \h60FF, \h6107, op, \h1208 >> :
        nnn \in {OffV, OffStack + 2, OffDisplay, OffDisplay + 255, \h300,
                 MAX_MEMORY - 2, MAX_MEMORY - 1},
        op \in {\hF033, \hF055, \hF155, \hF165, \hF01E, \hF029} }
    \cup { << \hAFFF, \h60FF, \hF01E, \hD001, \h1208 >>,
           << \h2204, \h1202, \h2208, \h00EE, \h00EE >>,
           << \h2204, \h1202, \h600E, \h6102, \hA016, \hF155, \h00EE, \h120E >>,
           << \hA038, \hD005, \h00E0, \h1206 >>,
           << \hA038, \hD125, \h6A05, \h7A01, \h8A14, \hC0FF, \hFA15, \hFA07,
              \hFA18, \h3A00, \h4A00, \h5A10, \h9A10, \hEA9E, \hEAA1, \h2224,
              \h1222, \h1222, \h00EE >> }

(* one word and a jump to itself after it: words with high nibble 0, and words
   of every group the else-if chain has no branch for *)
DecodeWords ==
    { \h0000, \h000E, \h00DF, \h00E1, \h00ED, \h00EF, \h01E0, \h0200, \h0EE0, \h0FFF }
    \cup { w * 4096 + x * 256 + y * 16 + z :
             w \in {5, 9}, x \in {0, 15}, y \in {0, 15}, z \in 1 .. 15 }
    \cup { \h8000 + x * 256 + y * 16 + z :
             x \in {0, 15}, y \in {0, 15}, z \in {8, 9, 10, 11, 12, 13, 15} }
    \cup { \hE000 + x * 256 + kk : x \in {0, 15}, kk \in (0 .. 255) \ {\h9E, \hA1} }
    \cup { \hF000 + x * 256 + kk :
             x \in {0, 15},
             kk \in (0 .. 255) \ {\h07, \h0A, \h15, \h18, \h1E, \h29, \h33, \h55, \h65} }
DecodePrograms == { << word, \h1202 >> : word \in DecodeWords }

EngineFiles ==
    { File(TRUE, 2 * Len(w), TRUE, Bytes(w)) :
        w \in AluPrograms \cup DrawPrograms \cup OtherPrograms \cup DecodePrograms }

(* no second LoadProgram call *)
NoFile == File(FALSE, -1, FALSE, << >>)

(* -i values: the least IPSConstraint lets through and the default *)
IpsChoices == {60, 600}

(* the keymap of Chip8::Run, by key name *)
keymap ==
    [ k1 |-> 1, k2 |-> 2, k3 |-> 3, k4 |-> 12,
      kQ |-> 4, kW |-> 5, kE |-> 6, kR |-> 13,
      kA |-> 7, kS |-> 8, kD |-> 9, kF |-> 14,
      kZ |-> 10, kX |-> 0, kC |-> 11, kV |-> 15 ]

(* the events the window system delivers in the model: quit, two mapped keys and
   one key outside the keymap, and an event type the switch ignores *)
Events ==
    { [type |-> "SDL_QUIT", scancode |-> "none"],
      [type |-> "SDL_MOUSEMOTION", scancode |-> "none"] }
    \cup [type : {"SDL_KEYDOWN", "SDL_KEYUP"}, scancode : {"kW", "kV", "kP"}]

(* int(elapsedSeconds.count() * FPS) for a sample of t ticks *)
FramesAt(t) == (t * FPS) \div TicksPerSecond

(* the state when main calls LoadProgram: the constructed object *)
Boot ==
    /\ memory = Constructed
    /\ halt = FALSE
    /\ screenUpdated = TRUE
    /\ phase = "boot"
    /\ running = FALSE
    /\ insPerFrame = 0
    /\ consecutiveIns = 0
    /\ framesFinished = 0
    /\ i = 0
    /\ polled = 0
    /\ now = 0
    /\ memAccess = {}
    /\ stackWrite = {}
    /\ lastFetch = -1
    /\ dtVal = 0
    /\ dtAt = 0
    /\ lastEvent = NoEvent
    /\ executed = 0
    /\ shownBefore = Shown(Constructed)
    /\ calls = << >>

Init ==
    /\ Boot
    /\ ips \in IpsChoices
    /\ filePath \in Files
    /\ sampleTimes = EarlyTimes
    /\ reloadPath = NoFile

(* the timer scenario: a program that sets both timers and spins, a clock that
   may stall for a second *)
InitTimer ==
    /\ Boot
    /\ ips = 60
    /\ filePath \in { ProgramFile("timer"), ProgramFile("blow"), File(FALSE, 0, FALSE, << >>) }
    /\ sampleTimes = StallTimes
    /\ reloadPath = NoFile

(* the scenario of the loop's ending: a key-wait, a fatal RET, a Bnnn below
   program space, a file that is not there *)
InitLive ==
    /\ Boot
    /\ ips = 60
    /\ filePath \in { ProgramFile("key"), ProgramFile("ret"), ProgramFile("blow"),
                       File(FALSE, 0, FALSE, << >>) }
    /\ sampleTimes = {0, MaxNow}
    /\ reloadPath = NoFile

(* a host that, unlike main, calls LoadProgram a second time on the same object
   once Run has returned, and Run again when that load succeeds *)
InitReload ==
    /\ Boot
    /\ ips = 60
    /\ filePath \in { ProgramFile("retret"), ProgramFile("blow"), FullProgram }
    /\ sampleTimes = {0, MaxNow}
    /\ reloadPath \in { ProgramFile("ret"), ProgramFile("key"),
                         File(FALSE, 0, FALSE, << >>),
                         File(TRUE, 2, FALSE, << 0, 224 >>),
                         File(TRUE, MAX_PROGRAM_SIZE + 1, TRUE,
                              [k \in 1 .. (MAX_PROGRAM_SIZE + 1) |-> 0]) }

(* the generated programs, on a host where no window event arrives and every
   clock sample falls into the first frame *)
InitEngine ==
    /\ Boot
    /\ ips = 60
    /\ filePath \in EngineFiles
    /\ sampleTimes = {0}
    /\ reloadPath = NoFile

(* ---------------- Chip8::LoadProgram, called by main ---------------- *)
(* faulty variant of Accepted: a file of exactly MAX_PROGRAM_SIZE bytes refused *)
AcceptedBelowMax(f) ==
    /\ f.found
    /\ ~(f.size <= 0 \/ f.size >= MAX_PROGRAM_SIZE)
    /\ f.readable

Accepted(f) ==
    /\ f.found
    /\ ~(f.size <= 0 \/ f.size > MAX_PROGRAM_SIZE)
    /\ f.readable

(* input.read(&memory[PROGRAM_SPACE], MAX_PROGRAM_SIZE) *)
ReadInto(m, bytes) ==
    LET n == Min(Len(bytes), MAX_PROGRAM_SIZE)
        kept == ZeroRange(m, PROGRAM_SPACE, PROGRAM_SPACE + n)
        read == { a \in PROGRAM_SPACE .. (PROGRAM_SPACE + n - 1) : bytes[a - PROGRAM_SPACE + 1] # 0 }
    IN [a \in DOMAIN kept \cup read |->
           IF a \in read THEN bytes[a - PROGRAM_SPACE + 1] ELSE kept[a]]

(* faulty variant of LoadProgram: Reset() called before the file is looked at *)
LoadProgramResetsFirst(f) ==
    /\ \/ phase = "boot" /\ f = filePath /\ UNCHANGED reloadPath
       \/ phase = "exit" /\ f = reloadPath /\ reloadPath' = NoFile
    /\ IF Accepted(f)
       THEN /\ memory' = Reset(ReadInto(memory, f.bytes))
            /\ halt' = FALSE
            /\ screenUpdated' = TRUE
            /\ phase' = "loaded"
            /\ dtVal' = 0
            /\ dtAt' = framesFinished
       ELSE /\ phase' = "off"
            /\ memory' = Reset(memory)
            /\ halt' = FALSE
            /\ screenUpdated' = TRUE
            /\ UNCHANGED << dtVal, dtAt >>
    /\ lastEvent' = NoEvent
    /\ calls' = IF Accepted(f) THEN << >> ELSE calls
    /\ UNCHANGED << host, runLocals, memAccess, stackWrite, lastFetch, executed, shownBefore >>

(* Chip8::LoadProgram, and what main does with its result *)
LoadProgram(f) ==
    /\ \/ phase = "boot" /\ f = filePath /\ UNCHANGED reloadPath
       \/ phase = "exit" /\ f = reloadPath /\ reloadPath' = NoFile
    /\ IF Accepted(f)
       THEN /\ memory' = Reset(ReadInto(memory, f.bytes))
            /\ halt' = FALSE
            /\ screenUpdated' = TRUE
            /\ phase' = "loaded"
            /\ dtVal' = 0
            /\ dtAt' = framesFinished
       ELSE /\ phase' = "off"
            /\ UNCHANGED << machine, dtVal, dtAt >>
    /\ lastEvent' = NoEvent
    /\ calls' = IF Accepted(f) THEN << >> ELSE calls
    /\ UNCHANGED << host, runLocals, memAccess, stackWrite, lastFetch, executed, shownBefore >>

(* ---------------- Chip8::Run ---------------- *)
(* insPerFrame = std::max(1u, ips/FPS/2) *)
InsPerFrame(n) == Max(1, (n \div FPS) \div 2)

(* entry: InitSDL(), then the locals *)
RunStart(sdlOk) ==
    /\ phase = "loaded"
    /\ IF sdlOk
       THEN /\ phase' = "batch"
            /\ insPerFrame' = InsPerFrame(ips)
            /\ consecutiveIns' = 0
            /\ framesFinished' = 0
            /\ running' = TRUE
            /\ i' = 0
            /\ now' = 0
            /\ dtAt' = 0
            /\ executed' = 0
            /\ UNCHANGED polled
       ELSE /\ phase' = "off"
            /\ UNCHANGED << runLocals, dtAt, executed >>
    /\ lastEvent' = NoEvent
    /\ UNCHANGED << machine, host, memAccess, stackWrite, lastFetch, dtVal, shownBefore, calls,
                    reloadPath >>

(* faulty variant of Waiting: the flag is never seen *)
WaitingNever(m) == FALSE

(* waitingKey & WAITINGKEY_FLAG *)
Waiting(m) == BitAnd(RegWaitingKey(m), WAITINGKEY_FLAG, 8) # 0

(* the values the environment may decide for the next ExecuteInstruction call *)
NextWord(m, junk) ==
    LET pc == RegPC(m)
    IN IF ~ValidPC(pc) THEN 0
       ELSE Rd8(m, pc) * 256 + (IF pc + 1 < MAX_MEMORY THEN Rd8(m, pc + 1) ELSE junk)

JunkSet(m) ==
    LET pc == RegPC(m)
        op == NextWord(m, 0)
    IN IF ValidPC(pc) /\
          (pc + 1 >= MAX_MEMORY
             \/ (op \div 4096 = 15 /\ op % 256 = \h65
                   /\ RegI(m) + ((op \div 256) % 16) >= MAX_MEMORY))
       THEN 0 .. 255 ELSE {0}

RndSet(op) == IF op \div 4096 = 12 THEN 0 .. 255 ELSE {0}

UbSet(m, op) ==
    IF \/ op = 238 /\ RegSP(m) = STACK_SIZE
       \/ op \div 4096 = 2 /\ RegSP(m) = STACK_SIZE - 1
       \/ op \div 4096 = 14 /\ op % 256 \in {\h9E, \hA1} /\ RegV(m, (op \div 256) % 16) >= 31
    THEN BOOLEAN ELSE {FALSE}

(* Bnnn ends in getchar() when the new PC is below PROGRAM_SPACE *)
BlocksOnStdin(m, h, junk) ==
    /\ ~h
    /\ ValidPC(RegPC(m))
    /\ NextWord(m, junk) \div 4096 = 11
    /\ (NextWord(m, junk) % 4096) + RegV(m, 0) < PROGRAM_SPACE

(* the CALLs not yet returned from, after the instruction op executed in m:
   a CALL that passes its check is entered for its depth, a RET that passes
   its check leaves the depths below the one it returns to *)
Shallower(cs, depth) == SelectSeq(cs, LAMBDA e : e.sp < depth)
CallsAfter(cs, m, fetched, op) ==
    IF ~fetched THEN cs
    ELSE IF op \div 4096 = 2 /\ RegSP(m) < STACK_SIZE - 1
    THEN Append(Shallower(cs, RegSP(m)),
                [at |-> RegPC(m), sp |-> RegSP(m),
                 below |-> [k \in 0 .. RegSP(m) |-> RegStack(m, k)]])
    ELSE IF op = \h00EE /\ RegSP(m) > 0 THEN Shallower(cs, RegSP(m) - 1)
    ELSE cs

(* one turn of the for loop: ExecuteInstruction(); i++ *)
ExecStep ==
    /\ phase = "batch"
    /\ i < consecutiveIns
    /\ ~Waiting(memory)
    /\ \E junk \in JunkSet(memory) :
       \E rnd \in RndSet(NextWord(memory, junk)), ub \in UbSet(memory, NextWord(memory, junk)) :
          LET r == ExecuteInstruction(Ctx(memory, halt, screenUpdated),
                                      [rnd |-> rnd, junk |-> junk, ub |-> ub])
          IN /\ memory' = r.mem
             /\ halt' \in (IF r.oob THEN BOOLEAN ELSE {r.halt})
             /\ screenUpdated' = r.upd
             /\ memAccess' = r.acc
             /\ stackWrite' = r.stk
             /\ lastFetch' = r.fetch
             /\ executed' = executed + (IF r.fetch # -1 THEN 1 ELSE 0)
             /\ shownBefore' = IF r.fetch # -1 THEN Shown(memory) ELSE shownBefore
             /\ calls' = CallsAfter(calls, memory, r.fetch # -1, NextWord(memory, junk))
             /\ IF RegDelayTimer(r.mem) # RegDelayTimer(memory)
                THEN dtVal' = RegDelayTimer(r.mem) /\ dtAt' = framesFinished
                ELSE UNCHANGED << dtVal, dtAt >>
             /\ phase' = IF BlocksOnStdin(memory, halt, junk) THEN "getchar" ELSE "batch"
    /\ i' = i + 1
    /\ lastEvent' = NoEvent
    /\ UNCHANGED << host, running, insPerFrame, consecutiveIns, framesFinished, polled, now,
                    reloadPath >>

(* getchar() returns *)
Getchar ==
    /\ phase = "getchar"
    /\ phase' = "batch"
    /\ lastEvent' = NoEvent
    /\ UNCHANGED << machine, host, runLocals, history, reloadPath >>

(* the for loop ends *)
BatchEnd ==
    /\ phase = "batch"
    /\ ~(i < consecutiveIns /\ ~Waiting(memory))
    /\ phase' = "events"
    /\ polled' = 0
    /\ lastEvent' = NoEvent
    /\ UNCHANGED << machine, host, running, insPerFrame, consecutiveIns, framesFinished, i, now,
                    history, reloadPath >>

(* faulty variant of HandleKey: a release resolves the wait as a press does *)
HandleKeyAnyResolves(m, type, key) ==
    LET flag == Pow2(key % 16)
        keys == RegKeys(m)
        m1 == IF type = "SDL_KEYDOWN"
              THEN Wr16(m, OffKeys, BitOr(keys, flag, 16))
              ELSE Wr16(m, OffKeys, BitAnd(keys, 65535 - flag, 16))
    IN IF Waiting(m1)
       THEN Wr8(Wr8(m1, OffV + (RegWaitingKey(m1) % 16), key % 16), OffWaitingKey, 0)
       ELSE m1

(* faulty variant of HandleKey: the wait flag is not tested, every press is
   written to V[waitingKey & 0xF] *)
HandleKeyAlwaysWrites(m, type, key) ==
    LET flag == Pow2(key % 16)
        keys == RegKeys(m)
        m1 == IF type = "SDL_KEYDOWN"
              THEN Wr16(m, OffKeys, BitOr(keys, flag, 16))
              ELSE Wr16(m, OffKeys, BitAnd(keys, 65535 - flag, 16))
    IN IF type = "SDL_KEYDOWN"
       THEN Wr8(Wr8(m1, OffV + (RegWaitingKey(m1) % 16), key % 16), OffWaitingKey, 0)
       ELSE m1

(* the body of the switch for one polled event *)
HandleKey(m, type, key) ==
    LET flag == Pow2(key % 16)
        keys == RegKeys(m)
        m1 == IF type = "SDL_KEYDOWN"
              THEN Wr16(m, OffKeys, BitOr(keys, flag, 16))
              ELSE Wr16(m, OffKeys, BitAnd(keys, 65535 - flag, 16))
    IN IF type = "SDL_KEYDOWN" /\ Waiting(m1)
       THEN Wr8(Wr8(m1, OffV + (RegWaitingKey(m1) % 16), key % 16), OffWaitingKey, 0)
       ELSE m1

PollEvent(e) ==
    /\ phase = "events"
    /\ polled < MaxEvents
    /\ polled' = polled + 1
    /\ lastEvent' = e
    /\ running' = IF e.type = "SDL_QUIT" THEN FALSE ELSE running
    /\ memory' = IF e.type \in {"SDL_KEYDOWN", "SDL_KEYUP"} /\ e.scancode \in DOMAIN keymap
                 THEN HandleKey(memory, e.type, keymap[e.scancode])
                 ELSE memory
    /\ IF RegDelayTimer(memory') # RegDelayTimer(memory)
       THEN dtVal' = RegDelayTimer(memory') /\ dtAt' = framesFinished
       ELSE UNCHANGED << dtVal, dtAt >>
    /\ UNCHANGED << halt, screenUpdated, host, phase, insPerFrame, consecutiveIns,
                    framesFinished, i, now, memAccess, stackWrite, lastFetch, executed,
                    shownBefore, calls, reloadPath >>

(* SDL_PollEvent returns 0 *)
PollEmpty ==
    /\ phase = "events"
    /\ phase' = "frames"
    /\ lastEvent' = NoEvent
    /\ UNCHANGED << machine, host, running, insPerFrame, consecutiveIns, framesFinished, i, polled,
                    now, history, reloadPath >>

(* faulty variant of TimerAfter: the std::min left out *)
TimerAfterNoFloor(timer, frames) == U8(timer - frames + 256 * frames)

(* timer -= std::min(frames, int(timer)) *)
TimerAfter(timer, frames) == U8(timer - Min(frames, timer))

(* faulty variant of LoopTest: halt is not looked at *)
LoopTestRunningOnly(r, h) == r

(* while(running && !halt) *)
LoopTest(r, h) == r /\ ~h

(* faulty variant of NextBatch: the std::max left out *)
NextBatchNoFloor(frames, perFrame) == frames * perFrame

(* consecutiveIns = std::max(1, frames) * insPerFrame *)
NextBatch(frames, perFrame) == Max(1, frames) * perFrame

(* the tail of the loop body, from the clock sample to the loop test *)
FrameAccounting(t) ==
    /\ phase = "frames"
    /\ t >= now
    /\ now' = t
    /\ LET frames == FramesAt(t) - framesFinished
       IN /\ IF frames > 0
             THEN /\ framesFinished' = framesFinished + frames
                  /\ memory' = Wr8(Wr8(memory, OffDelayTimer,
                                        TimerAfter(RegDelayTimer(memory), frames)),
                                    OffSoundTimer, TimerAfter(RegSoundTimer(memory), frames))
                  /\ screenUpdated' = FALSE
             ELSE UNCHANGED << framesFinished, memory, screenUpdated >>
          /\ consecutiveIns' = NextBatch(frames, insPerFrame)
    /\ i' = 0
    /\ phase' = IF LoopTest(running, halt) THEN "batch" ELSE "exit"
    /\ lastEvent' = NoEvent
    /\ executed' = 0
    /\ UNCHANGED << halt, host, running, insPerFrame, polled, memAccess, stackWrite, lastFetch,
                    dtVal, dtAt, shownBefore, calls, reloadPath >>

Samples == { t \in sampleTimes : t >= now }

Next ==
    \/ \E f \in Files : LoadProgram(f)
    \/ \E ok \in BOOLEAN : RunStart(ok)
    \/ ExecStep
    \/ Getchar
    \/ BatchEnd
    \/ \E e \in Events : PollEvent(e)
    \/ PollEmpty
    \/ \E t \in Samples : FrameAccounting(t)

Spec == Init /\ [][Next]_vars

SpecTimer == InitTimer /\ [][Next]_vars

(* Run is sequential code: the step at hand is taken, whatever the environment
   does; only getchar() may never return, and no event need ever arrive *)
RunProgress ==
    /\ WF_vars(ExecStep)
    /\ WF_vars(BatchEnd)
    /\ WF_vars(PollEmpty)
    /\ WF_vars(\E t \in Samples : FrameAccounting(t))

(* main and Chip8::Run while SDL_PollEvent has nothing to return *)
NextQuiet ==
    \/ LoadProgram(filePath)
    \/ RunStart(TRUE)
    \/ ExecStep
    \/ BatchEnd
    \/ PollEmpty
    \/ \E t \in Samples : FrameAccounting(t)

SpecEngine == InitEngine /\ [][NextQuiet]_vars

SpecReload == InitReload /\ [][Next]_vars

SpecLive == InitLive /\ [][Next]_vars /\ RunProgress

(* ======================= the claims ======================= *)
RunPhases == {"batch", "getchar", "events", "frames", "exit"}
WaitFlag(m) == (Rd8(m, 53) \div 16) % 2 = 1
MappedKey(e) == e.type \in {"SDL_KEYDOWN", "SDL_KEYUP"} /\ e.scancode \in DOMAIN keymap

(* C1: once halt is set, an ExecuteInstruction call changes nothing: no byte of
   the union (PC, SP, V, I, stack, memory, timers, display, waitingKey), not halt,
   not screenUpdated, and it fetches nothing; halt stays set while Run lasts. *)
C1_HaltedCallChangesNothing ==
    [][ /\ (halt /\ phase = "batch" /\ i' = i + 1) =>
              (memory' = memory /\ halt' /\ screenUpdated' = screenUpdated /\ lastFetch' = -1)
        /\ (halt /\ phase \in RunPhases) => halt' ]_vars

(* a call made with halt set and PC inside program space has returned *)
C1_Witness ==
    /\ halt /\ phase = "batch" /\ i >= 2 /\ lastFetch = -1
    /\ RegPC(memory) >= 512 /\ RegPC(memory) < 4096

(* C2 as stated: SP is in 0..15 in every state and no stack slot outside
   stack[0..15] is stored to. *)
C2_StackPointerInRange ==
    /\ RegSP(memory) \in 0 .. 15
    /\ stackWrite \subseteq 0 .. 15

(* C3 as stated: PC is within [0x200, 0x1000) in every state. *)
C3_PCAlwaysInProgramSpace == RegPC(memory) >= 512 /\ RegPC(memory) < 4096

(* C3 amended: every instruction fetch happens at a PC within [0x200, 0x1000);
   a call entered with PC outside that range sets halt and changes no byte. *)
C3_FetchOnlyInProgramSpace ==
    /\ [](lastFetch = -1 \/ (lastFetch >= 512 /\ lastFetch < 4096))
    /\ [][ (~halt /\ phase = "batch" /\ i' = i + 1
              /\ ~(RegPC(memory) >= 512 /\ RegPC(memory) < 4096)) =>
                 (halt' /\ memory' = memory /\ lastFetch' = -1) ]_vars

(* a call found PC below program space and halted *)
C3_Witness == halt /\ lastFetch = -1 /\ RegPC(memory) = 256 /\ i >= 2

(* C4 as stated: every memory[] index an instruction uses is below 4096. *)
C4_AccessBelow4096 == \A a \in memAccess : a < 4096

(* C5 as stated: in the program of nested CALLs none of the first sixteen CALLs
   (fetched at 0x200 .. 0x21E) halts the engine. *)
C5_SixteenNestedCalls ==
    (filePath = ProgramFile("calls") /\ lastFetch >= 512 /\ lastFetch <= 512 + 2 * 15) => ~halt

(* C5 amended: fifteen nested CALLs succeed (after the k-th, PC is the k-th target
   and SP = k) and the sixteenth halts the engine. *)
C5_FifteenNestedCalls ==
    (filePath = ProgramFile("calls") /\ phase \in RunPhases) =>
        /\ halt <=> RegPC(memory) = 512 + 2 * 16
        /\ ~halt => /\ RegPC(memory) <= 512 + 2 * 15
                    /\ RegSP(memory) = (RegPC(memory) - 512) \div 2

(* the sixteenth CALL, at 0x21E, has halted the engine *)
C5_Witness == filePath = ProgramFile("calls") /\ halt /\ lastFetch = 512 + 2 * 15

(* C6: a RET executed with SP = 0 sets halt, and the halted engine fetches no
   further instruction; a RET executed with SP > 0 does not halt and leaves
   PC = stack[SP] and SP = SP - 1 (stack[16], reached only once a store through
   memory[] has changed SP, is the bytes of SP and waitingKey themselves, and
   what is read from it is left open). *)
C6_ReturnUnderflowIsFatal ==
    [][ /\ (/\ ~halt /\ phase = "batch" /\ i' = i + 1
            /\ RegPC(memory) >= 512 /\ RegPC(memory) < 4095
            /\ Rd16(memory, RegPC(memory)) = 238 * 256) =>
                IF RegSP(memory) = 0
                THEN halt'
                ELSE /\ ~halt'
                     /\ RegSP(memory) # 16 => RegPC(memory') = RegStack(memory, RegSP(memory))
                     /\ RegSP(memory') = RegSP(memory) - 1
        /\ (halt /\ phase = "batch" /\ i' = i + 1) => (lastFetch' = -1 /\ halt') ]_vars

(* a RET with SP = 1 returned to 0x202, and the RET there, with SP = 0, halted *)
C6_Witness ==
    /\ filePath = ProgramFile("retret") /\ halt /\ lastFetch = 514
    /\ RegStack(memory, 1) = 514

(* C7: while the wait flag is set no instruction executes (in the batch loop
   nothing changes) and PC stays; the wait ends only in the step that drains the
   press of a mapped key k, which leaves k in V[waitingKey & 0xF] and clears
   waitingKey; the first fetch after an Fx0A is at the address after it. *)
C7_KeyWaitBlocksUntilPress ==
    [][ /\ WaitFlag(memory) =>
              /\ RegPC(memory') = RegPC(memory)
              /\ phase = "batch" => (memory' = memory /\ i' = i)
              /\ IF lastEvent'.type = "SDL_KEYDOWN" /\ MappedKey(lastEvent')
                 THEN /\ RegV(memory', Rd8(memory, 53) % 16) = keymap[lastEvent'.scancode]
                      /\ Rd8(memory', 53) = 0
                 ELSE /\ Rd8(memory', 53) = Rd8(memory, 53)
                      /\ \A x \in 0 .. 15 : RegV(memory', x) = RegV(memory, x)
        /\ (/\ lastFetch >= 0 /\ lastFetch' # lastFetch
            /\ Rd8(memory, lastFetch) \div 16 = 15 /\ Rd8(memory, lastFetch + 1) = 10) =>
               lastFetch' \in {lastFetch + 2, -1} ]_vars

(* the wait of F30A at 0x200 ended with key F, and the instruction at 0x202 ran *)
C7_Witness ==
    /\ filePath = ProgramFile("key") /\ lastFetch = 514 /\ RegV(memory, 3) = 16
    /\ ~WaitFlag(memory)

(* C8: a polled event changes, of the pressed-key mask, exactly the bit of its
   key (set by a press, cleared by a release; nothing for an unmapped key or
   another event type), in Idle and while waiting; a release, like every event
   but a press, changes no other byte: not waitingKey, not a register. *)
C8_ReleaseOnlyClearsItsBit ==
    [][ lastEvent' # NoEvent =>
          /\ \A b \in 0 .. 15 :
                Bit(RegKeys(memory'), b) =
                   IF MappedKey(lastEvent') /\ b = keymap[lastEvent'.scancode]
                   THEN (IF lastEvent'.type = "SDL_KEYDOWN" THEN 1 ELSE 0)
                   ELSE Bit(RegKeys(memory), b)
          /\ lastEvent'.type # "SDL_KEYDOWN" =>
                \A a \in 0 .. 391 : Rd8(memory', a) = Rd8(memory, a)
          /\ (lastEvent'.type = "SDL_KEYDOWN" /\ ~WaitFlag(memory)) =>
                \A a \in 0 .. 391 : Rd8(memory', a) = Rd8(memory, a) ]_vars

(* the release of key 5 was drained during a key-wait, key F still held *)
C8_Witness ==
    /\ lastEvent = [type |-> "SDL_KEYUP", scancode |-> "kW"]
    /\ WaitFlag(memory) /\ RegKeys(memory) = 32768

(* C9: after every cycle framesFinished is floor(60 * t) for the sample t; the
   accounting step takes min(elapsed frames, timer) off each timer, so nothing
   when no frame elapsed; the delay timer is what an instruction last set it to
   minus the frames counted since, floored at 0. *)
C9_TimersFollowFrames ==
    /\ []( /\ phase \in RunPhases => framesFinished = (now * 60) \div TicksPerSecond
           /\ RegDelayTimer(memory) = Max(0, dtVal - (framesFinished - dtAt)) )
    /\ [][ phase = "frames" =>
             LET elapsed == ((now' * 60) \div TicksPerSecond) - framesFinished
             IN /\ RegDelayTimer(memory') = RegDelayTimer(memory) - Min(elapsed, RegDelayTimer(memory))
                /\ RegSoundTimer(memory') = RegSoundTimer(memory) - Min(elapsed, RegSoundTimer(memory)) ]_vars

(* the delay timer was set to 60, at least 60 frames were counted since, it is 0 *)
C9_Witness ==
    /\ dtVal = 60 /\ framesFinished - dtAt >= 60 /\ RegDelayTimer(memory) = 0

(* C10: the loop is left only with a stop request drained or the engine halted;
   the loop test after a cycle leaves the loop exactly then and otherwise starts
   the next cycle, key-wait or not; once the stop request is drained the batch
   loop is not entered again, and a halted engine fetches nothing more; a loop
   with the stop request drained or the engine halted is left, and a loop that
   is not left and not inside getchar() comes to its frame accounting again and
   again. *)
C10_LoopEndsOnStopOrHalt ==
    /\ []( /\ phase = "exit" => (~running \/ halt)
           /\ phase \in {"batch", "getchar"} => running )
    /\ [][ /\ phase = "frames" =>
                /\ phase' = "exit" <=> (~running \/ halt)
                /\ phase' = "batch" <=> (running /\ ~halt)
           /\ (halt /\ phase \in RunPhases) => lastFetch' \in {lastFetch, -1} ]_vars
    /\ (phase \in RunPhases /\ (~running \/ halt)) ~> (phase = "exit")
    /\ []<>(phase \in {"boot", "loaded", "off", "exit", "getchar", "frames"})

(* the loop cycled through a key-wait and was left on a stop request *)
C10_Witness ==
    /\ phase = "exit" /\ ~running /\ ~halt /\ WaitFlag(memory) /\ framesFinished >= 1

(* C11: in a cycle at most consecutiveIns instructions execute; when the batch
   loop is left, exactly consecutiveIns have executed unless the engine waits
   for a key or is halted, and from the instruction that set the wait flag or
   halted the engine on, the batch executes nothing; the accounting at the end
   of a cycle leaves consecutiveIns = max(1, elapsed frames) * max(1, ips/60/2)
   for the next one. *)
C11_BatchExecutesConsecutiveIns ==
    /\ [](phase \in RunPhases => executed <= consecutiveIns)
    /\ [][ /\ (phase = "batch" /\ phase' = "events") =>
                 (executed = consecutiveIns \/ WaitFlag(memory) \/ halt)
           /\ (phase = "batch" /\ (WaitFlag(memory) \/ halt)) => executed' = executed
           /\ phase = "frames" =>
                 consecutiveIns' =
                    Max(1, ((now' * 60) \div TicksPerSecond) - framesFinished)
                       * Max(1, (ips \div 60) \div 2) ]_vars

(* two frames elapsed at 600 instructions per second, and the batch of ten ran
   to its end *)
C11_Witness ==
    /\ phase = "events" /\ ips = 600 /\ consecutiveIns = 10 /\ executed = 10 /\ ~halt

(* the file of the LoadProgram call at hand, and the step that is that call *)
LoadedFile == IF phase = "boot" THEN filePath ELSE reloadPath
LoadCall == phase \in {"boot", "exit"} /\ phase' \in {"loaded", "off"}

(* C12: LoadProgram succeeds for a file that is there, can be opened and has
   1 .. 3584 bytes, and fails for one of 3585 bytes (or none); after a success
   byte k of the file is memory[0x200 + k] for every k below its size, and
   PC = 0x200. *)
C12_LoadAcceptsUpTo3584 ==
    [][ LoadCall =>
          /\ phase' = "loaded" <=>
                (/\ LoadedFile.found /\ LoadedFile.readable
                 /\ LoadedFile.size >= 1 /\ LoadedFile.size <= 3584)
          /\ phase' = "loaded" =>
                /\ \A k \in 1 .. LoadedFile.size :
                      Rd8(memory', 511 + k) = LoadedFile.bytes[k]
                /\ RegPC(memory') = 512 ]_vars

(* the file of 3584 bytes is loaded, its last byte at 0xFFF *)
C12_Witness ==
    /\ phase = "loaded" /\ filePath.size = 3584 /\ Rd8(memory, 4095) = 238
    /\ Rd8(memory, 512) = 18

(* C13: a LoadProgram call that fails (file missing, not openable, empty or
   larger than 3584 bytes) changes no byte of the union, not halt and not
   screenUpdated, and nothing runs after it. *)
C13_RejectedLoadChangesNothing ==
    [][ /\ (LoadCall /\ phase' = "off") =>
              /\ ~(/\ LoadedFile.found /\ LoadedFile.readable
                    /\ LoadedFile.size >= 1 /\ LoadedFile.size <= 3584)
              /\ memory' = memory /\ halt' = halt /\ screenUpdated' = screenUpdated
              /\ lastFetch' = lastFetch
        /\ phase # "off" ]_vars

(* a second load was refused on an object that had run a program to a halt *)
C13_Witness ==
    /\ phase = "off" /\ halt /\ filePath = ProgramFile("retret") /\ reloadPath = NoFile
    /\ RegStack(memory, 1) = 514

(* C14 as stated: after every successful load V0..VF, I, SP, the sixteen stack
   entries and both timers are 0, PC = 0x200, and program space holds the bytes
   of the file followed by zeros. *)
C14_LoadResetsEverything ==
    [][ (LoadCall /\ phase' = "loaded") =>
          /\ \A x \in 0 .. 15 : RegV(memory', x) = 0 /\ RegStack(memory', x) = 0
          /\ RegI(memory') = 0 /\ RegSP(memory') = 0 /\ RegPC(memory') = 512
          /\ RegDelayTimer(memory') = 0 /\ RegSoundTimer(memory') = 0
          /\ \A a \in 512 .. 4095 :
                Rd8(memory', a) = IF a - 511 <= LoadedFile.size
                                  THEN LoadedFile.bytes[a - 511] ELSE 0 ]_vars

(* the step that executes the instruction at PC, the word there and its fields *)
InstrStep ==
    /\ ~halt /\ phase = "batch" /\ i' = i + 1
    /\ RegPC(memory) >= 512 /\ RegPC(memory) < 4095
OpAt == Rd8(memory, RegPC(memory)) * 256 + Rd8(memory, RegPC(memory) + 1)
OpW == OpAt \div 4096
OpX == (OpAt \div 256) % 16
OpY == (OpAt \div 16) % 16
OpN == OpAt % 16

(* C15 as stated: after 8xy4 VF is the carry of Vx + Vy, after 8xy5 VF = 1 iff
   Vx >= Vy, after 8xy7 VF = 1 iff Vy >= Vx, for every x and y (x = F too), the
   operands being the values before the instruction; for x # F, Vx holds the
   result truncated to 8 bits. *)
C15_ArithmeticFlags ==
    [][ (InstrStep /\ OpW = 8 /\ OpN \in {4, 5, 7}) =>
          LET vx == RegV(memory, OpX)
              vy == RegV(memory, OpY)
              flag == IF OpN = 4 THEN vx + vy > 255
                      ELSE IF OpN = 5 THEN vx >= vy ELSE vy >= vx
              result == IF OpN = 4 THEN (vx + vy) % 256
                        ELSE IF OpN = 5 THEN (vx - vy + 256) % 256
                        ELSE (vy - vx + 256) % 256
          IN /\ RegV(memory', 15) = (IF flag THEN 1 ELSE 0)
             /\ OpX # 15 => RegV(memory', OpX) = result ]_vars

(* C16 as stated: 8xy6 leaves Vx = Vy >> 1 and VF = Vy & 1, 8xyE leaves
   Vx = (Vy << 1) & 0xFF and VF = bit 7 of Vy, Vy being the value of register y
   before the instruction, for every x and y (y = F too). *)
C16_ShiftsUseVy ==
    [][ (InstrStep /\ OpW = 8 /\ OpN \in {6, 14}) =>
          LET vy == RegV(memory, OpY)
          IN /\ RegV(memory', 15) = (IF OpN = 6 THEN vy % 2 ELSE vy \div 128)
             /\ OpX # 15 =>
                  RegV(memory', OpX) = (IF OpN = 6 THEN vy \div 2 ELSE (vy * 2) % 256) ]_vars

(* C17 as stated: an instruction other than Dxyn and 00E0 leaves every cell of
   the framebuffer unchanged, whatever I and the registers hold. *)
C17_OnlyDrawAndClearTouchDisplay ==
    [][ (InstrStep /\ OpW # 13 /\ OpAt # 224) =>
          Shown(memory') = Shown(memory) ]_vars

(* the addresses the rows of the sprite of the draw at PC are read from *)
RowsRead == { (RegI(memory) + r) % 4096 : r \in 0 .. (OpN - 1) }

(* C18 as stated: a draw never halts the engine, whatever I and n are, and row
   r of the sprite is read from (I + r) masked to 12 bits. *)
C18_DrawNeverHalts ==
    [][ (InstrStep /\ OpW = 13) =>
          /\ ~halt'
          /\ memAccess' = {RegPC(memory), RegPC(memory) + 1} \cup RowsRead ]_vars

(* C18 amended: a draw halts the engine exactly when I + n >= 4096; halting or
   not, it reads row r of the sprite from (I + r) masked to 12 bits and nothing
   else but its own two bytes, and sets the dirty flag. *)
C18_DrawHaltsBeyondMemory ==
    [][ (InstrStep /\ OpW = 13) =>
          /\ halt' <=> (RegI(memory) + OpN >= 4096)
          /\ memAccess' = {RegPC(memory), RegPC(memory) + 1} \cup RowsRead
          /\ screenUpdated' ]_vars

(* a draw of five rows with I = 0xFFE has halted the engine, its rows read
   from 0xFFE, 0xFFF, 0, 1 and 2 *)
C18_Witness ==
    /\ halt /\ phase = "batch" /\ lastFetch >= 512
    /\ Rd8(memory, lastFetch) \div 16 = 13
    /\ RegI(memory) = 4094 /\ Rd8(memory, lastFetch + 1) % 16 = 5
    /\ memAccess = {lastFetch, lastFetch + 1, 4094, 4095, 0, 1, 2}
    /\ screenUpdated

(* bit col of row r of the sprite of the draw at PC, as memory holds it before
   the draw, and the cell (Vx + col) mod 64, (Vy + r) mod 32 it belongs to *)
SpriteBit(r, col) == Bit(Rd8(memory, (RegI(memory) + r) % 4096), 7 - col)
SpriteCell(r, col) ==
    W * ((RegV(memory, OpY) + r) % H) + ((RegV(memory, OpX) + col) % W)
SetSpriteCells ==
    UNION { { SpriteCell(r, col) : col \in { q \in 0 .. 7 : SpriteBit(r, q) = 1 } } :
              r \in 0 .. (OpN - 1) }
(* the cells of the display bytes that are not zero before or after the step *)
LitCells ==
    UNION { { 8 * (a - OffDisplay) + b : b \in 0 .. 7 } :
              a \in DOMAIN Shown(memory) \cup DOMAIN Shown(memory') }
(* the draw at PC writes none of the bytes it reads its sprite from *)
SpriteApart == \A a \in RowsRead : a # 15 /\ (a < OffDisplay \/ a >= OffDisplay + 256)

(* C19 as stated: a draw XORs sprite bit (row, col) into the cell
   ((Vx + col) mod 64, (Vy + row) mod 32), Vx and Vy being the register values
   before the instruction, for every x and y (F too); VF is 1 afterwards iff a
   set pixel became unset, else 0; the dirty flag is set. *)
C19_DrawXorsAtVxVy ==
    [][ (InstrStep /\ OpW = 13 /\ SpriteApart) =>
          /\ \A cell \in LitCells \cup SetSpriteCells :
                DisplayBit(memory', cell) =
                   (DisplayBit(memory, cell)
                      + (IF cell \in SetSpriteCells THEN 1 ELSE 0)) % 2
          /\ RegV(memory', 15) =
                (IF \E cell \in SetSpriteCells : DisplayBit(memory, cell) = 1
                 THEN 1 ELSE 0)
          /\ screenUpdated' ]_vars

(* the instruction at PC is the draw that was executed just before it, with
   registers other than VF for its position, inside memory, and its sprite
   bytes are what they were before that first draw *)
SecondOfTwoDraws ==
    /\ InstrStep /\ OpW = 13 /\ OpX # 15 /\ OpY # 15
    /\ lastFetch >= 512 /\ lastFetch = RegPC(memory) - 2
    /\ Rd8(memory, lastFetch) * 256 + Rd8(memory, lastFetch + 1) = OpAt
    /\ RegI(memory) + OpN < 4096
    /\ \A a \in RowsRead :
          /\ a # 15
          /\ (a >= OffDisplay /\ a < OffDisplay + 256) => Rd8(shownBefore, a) = Rd8(memory, a)

(* C20: the second of two equal draws in a row (same I, same sprite bytes, x and
   y other than F, I + n < 4096) leaves the framebuffer as it was before the
   first; when that was the cleared screen and the sprite has a set bit, the
   second draw turns every pixel of the sprite off and leaves VF = 1. *)
C20_DrawTwiceRestores ==
    [][ SecondOfTwoDraws =>
          /\ Shown(memory') = shownBefore
          /\ (DOMAIN shownBefore = {} /\ SetSpriteCells # {}) =>
                /\ \A cell \in SetSpriteCells :
                      DisplayBit(memory, cell) = 1 /\ DisplayBit(memory', cell) = 0
                /\ DOMAIN Shown(memory') = {}
                /\ RegV(memory', 15) = 1 ]_vars

(* the font glyph 0 was drawn twice at a wrapping position: the screen is clear
   again and VF = 1 *)
C20_Witness ==
    /\ phase = "batch" /\ ~halt /\ lastFetch = 520
    /\ Rd8(memory, 518) = Rd8(memory, 520) /\ Rd8(memory, 519) = Rd8(memory, 521)
    /\ Rd8(memory, 520) = 13 * 16 + 0 /\ Rd8(memory, 521) = 7 * 16 + 5
    /\ RegI(memory) = OffFont /\ RegV(memory, 0) = 60 /\ RegV(memory, 7) = 31
    /\ DOMAIN shownBefore # {} /\ DOMAIN Shown(memory) = {}
    /\ RegV(memory, 15) = 1

(* C21 as stated: with I + x < 4096, Fx55 leaves V0..Vx (their values before
   the instruction) in memory[I..I+x] and Fx65 leaves memory[I..I+x] in V0..Vx;
   afterwards I is the old I + x + 1 masked to 12 bits, so I < 4096. *)
C21_BlockTransferMasksI ==
    [][ (/\ InstrStep /\ OpW = 15 /\ OpAt % 256 \in {\h55, \h65}
         /\ RegI(memory) + OpX < 4096) =>
          /\ OpAt % 256 = \h55 =>
                \A k \in 0 .. OpX : Rd8(memory', RegI(memory) + k) = RegV(memory, k)
          /\ OpAt % 256 = \h65 =>
                \A k \in 0 .. OpX : RegV(memory', k) = Rd8(memory, RegI(memory) + k)
          /\ RegI(memory') = (RegI(memory) + OpX + 1) % 4096
          /\ RegI(memory') < 4096 ]_vars

(* the words the else-if chain of ExecuteInstruction has no branch for, and the
   words with high nibble 0 other than 00E0 and 00EE *)
InvalidWord(op) ==
    LET w == op \div 4096
        z == op % 16
        kk == op % 256
    IN \/ w \in {5, 9} /\ z # 0
       \/ w = 8 /\ z \in {8, 9, 10, 11, 12, 13, 15}
       \/ w = 14 /\ kk \notin {\h9E, \hA1}
       \/ w = 15 /\ kk \notin {\h07, \h0A, \h15, \h18, \h1E, \h29, \h33, \h55, \h65}
SysWord(op) == op \div 4096 = 0 /\ op \notin {\h00E0, \h00EE}
(* the state the fetch alone leaves: PC advanced by 2 *)
AfterFetch == Wr16(memory, OffPC, RegPC(memory) + 2)

(* C22 as stated: a word with high nibble 0 other than 00E0 and 00EE only
   advances PC by 2; a word outside the dispatch table halts the engine and
   changes no register (PC included), no memory byte and no framebuffer cell. *)
C22_InvalidOpcodeChangesNothing ==
    [][ /\ (InstrStep /\ SysWord(OpAt)) =>
              (memory' = AfterFetch /\ ~halt' /\ screenUpdated' = screenUpdated)
        /\ (InstrStep /\ InvalidWord(OpAt)) =>
              (halt' /\ memory' = memory /\ screenUpdated' = screenUpdated) ]_vars

(* C22 amended: a word with high nibble 0 other than 00E0 and 00EE only
   advances PC by 2; a word outside the dispatch table halts the engine and,
   PC having advanced by 2 for the fetch, changes no other register, no memory
   byte and no framebuffer cell; the words of the groups 1, 3, 4, 6, 7, A, B
   and C never halt. *)
C22_InvalidOpcodeHaltsAfterFetch ==
    [][ /\ (InstrStep /\ SysWord(OpAt)) =>
              (memory' = AfterFetch /\ ~halt' /\ screenUpdated' = screenUpdated)
        /\ (InstrStep /\ InvalidWord(OpAt)) =>
              (halt' /\ memory' = AfterFetch /\ screenUpdated' = screenUpdated)
        /\ (InstrStep /\ OpW \in {1, 3, 4, 6, 7, 10, 11, 12}) => ~halt' ]_vars

(* the word FFFF at 0x200 has halted the engine, PC at 0x202 *)
C22_Witness ==
    /\ halt /\ phase = "batch" /\ lastFetch = 512
    /\ Rd8(memory, 512) = 255 /\ Rd8(memory, 513) = 255
    /\ RegPC(memory) = 514 /\ RegSP(memory) = 0 /\ RegI(memory) = 0

(* the CALL the RET at PC returns from: the last one made at the depth below *)
LastCall == calls[Len(calls)]

(* C23 as stated: the RET that is the next return at the depth of a CALL made
   at address a with SP < 15 leaves PC = a + 2 and SP as it was before the
   CALL, and stack[0 .. that SP] as it was before the CALL. *)
C23_ReturnUndoesCall ==
    [][ (/\ InstrStep /\ OpAt = \h00EE
         /\ calls # << >> /\ RegSP(memory) = LastCall.sp + 1) =>
          /\ RegPC(memory') = LastCall.at + 2
          /\ RegSP(memory') = LastCall.sp
          /\ \A k \in 0 .. LastCall.sp : RegStack(memory', k) = LastCall.below[k] ]_vars

(* the instruction at PC fails the SANITY_CHECK of its branch *)
FatalAtPC ==
    \/ OpAt = \h00EE /\ RegSP(memory) = 0
    \/ OpW = 2 /\ RegSP(memory) = 15
    \/ OpW = 15 /\ OpAt % 256 = \h33 /\ RegI(memory) + 2 >= 4096
    \/ OpW = 15 /\ OpAt % 256 \in {\h55, \h65} /\ RegI(memory) + OpX >= 4096

(* C24 as stated: an instruction that fails its check (RET with SP = 0, CALL
   with SP = 15, Fx33 with I + 2 >= 4096, Fx55/Fx65 with I + x >= 4096) sets
   halt and, PC having advanced by 2, leaves SP, the stack, V0..VF, I and
   every memory byte as they were. *)
C24_FatalInstructionOnlyHalts ==
    [][ (InstrStep /\ FatalAtPC) => (halt' /\ memory' = AfterFetch) ]_vars

(* the bytes of V0..VF, of the stack, SP, waitingKey, both timers and the
   font, and of the pressed-key mask *)
RegisterBytes ==
    (OffV .. (OffV + MAX_REGISTERS - 1)) \cup (OffStack .. (OffDisplay - 1))
       \cup {OffKeys, OffKeys + 1}

(* C25 as stated: Fx33 and Fx55 with an I that passes the range check (an I
   below 0x200 too) leave V0..VF, SP, the stack, both timers, the pressed-key
   mask, the key-wait flag and target and the font bytes unchanged, and PC at
   the next instruction. *)
C25_StoresLeaveRegistersAlone ==
    [][ (/\ InstrStep /\ OpW = 15
         /\ \/ OpAt % 256 = \h33 /\ RegI(memory) + 2 < 4096
            \/ OpAt % 256 = \h55 /\ RegI(memory) + OpX < 4096) =>
          /\ \A a \in RegisterBytes : Rd8(memory', a) = Rd8(memory, a)
          /\ RegPC(memory') = RegPC(memory) + 2 ]_vars

(* the step drains the press of a mapped key *)
PressDrained ==
    /\ phase = "events" /\ polled' = polled + 1
    /\ lastEvent'.type = "SDL_KEYDOWN" /\ MappedKey(lastEvent')
PressedFlag == Pow2(keymap[lastEvent'.scancode])

(* C26: an Fx0A sets the wait whatever the pressed mask holds and writes no
   register; while the wait lasts, a step that is not the drain of a key press
   keeps it and keeps the target register, so a key that is held does not
   resolve it; the first press drained while waiting is written to the target
   register and ends the wait, and a press drained while not waiting, as the
   later ones of the same cycle are, only sets its bit in the mask. *)
C26_OnlyDrainedPressResolves ==
    [][ /\ (InstrStep /\ OpW = 15 /\ OpAt % 256 = \h0A) =>
              /\ Rd8(memory', OffWaitingKey) = WAITINGKEY_FLAG + OpX
              /\ \A k \in 0 .. 15 : RegV(memory', k) = RegV(memory, k)
              /\ RegKeys(memory') = RegKeys(memory)
        /\ (WaitFlag(memory) /\ ~PressDrained) =>
              /\ Rd8(memory', OffWaitingKey) = Rd8(memory, OffWaitingKey)
              /\ \A k \in 0 .. 15 : RegV(memory', k) = RegV(memory, k)
        /\ (WaitFlag(memory) /\ PressDrained) =>
              /\ ~WaitFlag(memory')
              /\ RegV(memory', Rd8(memory, OffWaitingKey) % 16) = keymap[lastEvent'.scancode]
        /\ (~WaitFlag(memory) /\ PressDrained) =>
              memory' = Wr16(memory, OffKeys, BitOr(RegKeys(memory), PressedFlag, 16)) ]_vars

(* while the engine waited after F30A, the presses of V and then of W were
   drained in one cycle: V3 holds the key of the first, the mask holds both *)
C26_Witness ==
    /\ filePath = ProgramFile("key") /\ phase = "events" /\ polled = 2
    /\ lastFetch = 512 /\ ~WaitFlag(memory)
    /\ lastEvent = [type |-> "SDL_KEYDOWN", scancode |-> "kW"]
    /\ RegV(memory, 3) = 15
    /\ RegKeys(memory) = Pow2(5) + Pow2(15)

====
